---- MODULE Spec2Model ----
(***************************************************************************)
(* Model of code/audio_align/run_align_concat_audio.py: the run that       *)
(* aligns per-segment TTS clips to subtitle slots and assembles them into  *)
(* one track; of translate_segments and the translation cache of          *)
(* code/translation/translation_api.py; and of the loop of                 *)
(* code/tts/run_tts_segments.py that writes the per-segment clips.         *)
(*                                                                         *)
(* Time is counted in ticks of half a sample: a record's start_sec is      *)
(* start / (2 * sr) seconds, so start_sec * sr = start / 2 samples and      *)
(* round() meets exact .5 cases.  Durations, thresholds and the stretch     *)
(* rate are exact rationals (cross-multiplied integers), not floats.        *)
(* A sample is an integer; 0 is silence.  The k-th sample of the clip       *)
(* file seg_<idx> is 10*idx + k, the k-th sample of a time-stretched clip   *)
(* is 100 + 10*idx + k: the code only copies samples, it never computes     *)
(* with them.                                                              *)
(***************************************************************************)
EXTENDS Integers, Sequences, FiniteSets, TLC

\* ---------------------------------------------------------------- bounds
MaxSlots == 2          \* records in the JSONL
TrackLen == 2          \* total_samples of the run
NegTicks == 2          \* earliest start is -NegTicks ticks
MaxStartTick == 6      \* latest start
MaxDurTick == 5        \* longest end - start, assembly runs
MaxClipLen == 3        \* longest decoded clip in samples, assembly runs
DecodeMaxStart == 2    \* latest start, runs with undecodable clips
DecodeMaxDur == 4      \* longest end - start, runs with undecodable clips
TimelineSlots == 3     \* records in the JSONL, timeline runs
CacheSegments == 2     \* segments saved to the translation cache
MaxSegments == 3       \* segments of a translation run and of a TTS run
MaxTextLen == 2        \* characters in a text of a cached segment
TimelineMaxStart == 2  \* latest start, timeline runs
MaxStretchLen == 3     \* longest buffer the stretch primitive returns
AlignMaxDurTick == 10  \* longest end - start, single-slot runs
AlignMaxClipLen == 10  \* longest decoded clip in samples, single-slot runs
AlignNegTicks == 4     \* earliest start is -AlignNegTicks ticks, single-slot runs

\* ------------------------------------------------------ program constants
MaxRelStretchTenths == 2     \* --max_rel_stretch default 0.2
MaxAbsStretchTenths == 4     \* --max_abs_stretch default 0.4
ClipLoTenths == 7            \* np.clip(rate, 0.7, 1.3)
ClipHiTenths == 13
EpsilonDen == 1000000        \* 1e-6

SampleRates == {2, 5}        \* sample rates of the single-slot runs
AssemblyRates == {2}         \* sample rates of the assembly runs
NoFile == -1                 \* files[idx] when seg_<idx>.mp3 does not exist
Corrupt == -2                \* files[idx] when seg_<idx>.mp3 exists and cannot be decoded

VARIABLES
    sr,             \* output sample rate
    total_samples,  \* length of the original audio at sr
    all_segments,   \* the records loaded from the JSONL, in file order
    max_segments,   \* --max_segments: <<>> (None) or <<N>>
    files,          \* segments_dir: idx -> decoded length of seg_<idx>.mp3, or NoFile
    processed,      \* the records with helper fields, sorted
    track,          \* the master track (<<>> before allocation)
    i,              \* loop position in processed (enumerate(..., start=1))
    pc,             \* where main() is
    aligned,        \* the aligned buffer between alignment and write
    outcome,        \* history: what happened to each processed slot
    output,         \* what sf.write saved (<<>> until then)
    twin_idx,       \* second run: the idx whose clip is empty there and absent
                    \* here, or the reverse (0: no second run)
    twin_track,     \* second run: its track
    twin_ok,        \* second run: no exception so far
    segments,       \* translation stage: the segments to cache
    jsonl,          \* translation stage: the characters of the cache file
    loaded,         \* translation stage: what load_translations_jsonl returned
    given,          \* translation stage: the segments as translate_segments got them
    calls,          \* translation and TTS stages: the log of what the loop did
    overwrite,      \* TTS stage: --overwrite
    out_dir         \* TTS stage: idx -> content of seg_<idx>.mp3, or NoFile

vars == <<sr, total_samples, all_segments, max_segments, files, processed,
          track, i, pc, aligned, outcome, output, twin_idx, twin_track, twin_ok,
          segments, jsonl, loaded, given, calls, overwrite, out_dir>>

\* --------------------------------------------------------------- helpers
Min(a, b) == IF a < b THEN a ELSE b
Max(a, b) == IF a > b THEN a ELSE b
Abs(a) == IF a < 0 THEN 0 - a ELSE a

Zeros(n) == [k \in 1..n |-> 0]

\* A variant that rounds half up, int(x + 0.5).
RoundHalfUp(t) == (t + 1) \div 2

\* Python 3 round(t / 2): round half to even.
RoundHalfEven(t) ==
    IF t % 2 = 0 THEN t \div 2
    ELSE LET q == (t - 1) \div 2 IN IF q % 2 = 0 THEN q ELSE q + 1

\* s[:n] of Python / numpy, n possibly negative.
Prefix(s, n) ==
    IF n >= 0 THEN SubSeq(s, 1, Min(n, Len(s)))
    ELSE SubSeq(s, 1, Max(0, Len(s) + n))

\* np.pad(s, (0, pad), mode="constant")
PadTail(s, pad) == s \o Zeros(pad)

\* a slice bound of Python against a sequence of length n
SliceBound(a, n) == IF a < 0 THEN Max(0, n + a) ELSE Min(a, n)

\* ------------------------------------------------------- slots and clips
NoIndex == 0                 \* the record has no "index" key

\* A record of the JSONL has the keys start_sec, end_sec, start, end and
\* index (text keys play no part in this stage).  The value of a time key:
Absent == <<>>                           \* the key is not in the record
Null == <<"null", 0>>                    \* JSON null
Text == <<"text", 0>>                    \* a string that is not a number
Number(t) == <<"number", t>>             \* a JSON number, t ticks
NumericString(t) == <<"string", t>>      \* a string that float() parses, t ticks

\* "key" in seg
HasKey(seg, key) == seg[key] # Absent
\* float(v) returns (a number, or a string holding one); otherwise it
\* raises TypeError or ValueError
FloatOK(v) == v[1] \in {"number", "string"}
Float(v) == v[2]

SlotError == <<>>            \* get_slot_times raised

\* A variant that takes whatever start key and end key it finds.
get_slot_times_any(seg) ==
    LET s == IF HasKey(seg, "start_sec") THEN seg["start_sec"] ELSE seg["start"]
        e == IF HasKey(seg, "end_sec") THEN seg["end_sec"] ELSE seg["end"]
    IN  IF s # Absent /\ e # Absent /\ FloatOK(s) /\ FloatOK(e)
        THEN <<Float(s), Float(e)>>
        ELSE SlotError

\* lines 82-88: <<start, end>> in ticks, or SlotError
get_slot_times(seg) ==
    IF HasKey(seg, "start_sec") /\ HasKey(seg, "end_sec")
    THEN IF FloatOK(seg["start_sec"]) /\ FloatOK(seg["end_sec"])
         THEN <<Float(seg["start_sec"]), Float(seg["end_sec"])>>
         ELSE SlotError
    ELSE IF HasKey(seg, "start") /\ HasKey(seg, "end")
    THEN IF FloatOK(seg["start"]) /\ FloatOK(seg["end"])
         THEN <<Float(seg["start"]), Float(seg["end"])>>
         ELSE SlotError
    ELSE SlotError

\* lines 132-135: the helper fields _start_sec, _end_sec, _duration_sec
WithTimes(seg) ==
    LET t == get_slot_times(seg)
    IN  [start |-> t[1], end |-> t[2], index |-> seg.index,
         dur |-> Max(0, t[2] - t[1])]

NoLimit == <<>>              \* args.max_segments is None

\* lines 125-126: all_segments[: args.max_segments]
Truncate(segs, limit) ==
    IF limit = NoLimit THEN segs ELSE Prefix(segs, limit[1])

\* list.sort(key=_start_sec): stable, ascending.  Insert x after every
\* element whose key is <= x's key.
RECURSIVE InsertByStartBeforeTies(_, _)
\* A variant that puts x before the elements with x's key.
InsertByStartBeforeTies(sorted, x) ==
    IF sorted = <<>> THEN <<x>>
    ELSE IF Head(sorted).start < x.start
         THEN <<Head(sorted)>> \o InsertByStartBeforeTies(Tail(sorted), x)
         ELSE <<x>> \o sorted

RECURSIVE InsertByStart(_, _)
InsertByStart(sorted, x) ==
    IF sorted = <<>> THEN <<x>>
    ELSE IF Head(sorted).start <= x.start
         THEN <<Head(sorted)>> \o InsertByStart(Tail(sorted), x)
         ELSE <<x>> \o sorted

\* A variant without the sort: the records stay in file order.
KeepFileOrder(segs) == segs

RECURSIVE SortByStart(_)
SortByStart(segs) ==
    IF segs = <<>> THEN <<>>
    ELSE InsertByStart(SortByStart(SubSeq(segs, 1, Len(segs) - 1)), segs[Len(segs)])

StartSample(seg) == RoundHalfEven(seg.start)
EndSample(seg) == RoundHalfEven(seg.end)
SlotLen(seg) == EndSample(seg) - StartSample(seg)

\* idx = seg.get("index", i)
SegIdx(seg, pos) == IF seg.index = NoIndex THEN pos ELSE seg.index

\* A variant with < for <=.
IsDegenerateStrict(seg) == EndSample(seg) < StartSample(seg)

\* line 150: end_sample <= start_sample
IsDegenerate(seg) == EndSample(seg) <= StartSample(seg)

\* seg_path.exists()
FileExists(fs, idx) == idx \in DOMAIN fs /\ fs[idx] # NoFile

\* librosa.load(seg_path, sr=sr, mono=True) raises: no decoder reads the file
LoadFails(fs, idx) == fs[idx] = Corrupt

\* librosa.load(seg_path, sr=sr, mono=True): the decoded samples
LoadAudio(fs, idx) == [k \in 1..fs[idx] |-> 10 * idx + k]

\* A variant without the check.
IsEmptyClipNever(audio) == FALSE

\* line 169: cur_len == 0
IsEmptyClip(audio) == Len(audio) = 0

\* ------------------------------------------------------ stretch decision
\* diff_sec = slot_duration - cur_dur, in ticks
DiffTicks(dur, cur_len) == dur - 2 * cur_len

\* rel_diff > max_rel_stretch, rel_diff = |diff| / max(slot_duration, 1e-6);
\* one tick is 1 / (2 * sr) seconds
RelExceeds(dur, cur_len, rate_hz) ==
    Abs(DiffTicks(dur, cur_len)) * EpsilonDen * 10
        > MaxRelStretchTenths * Max(dur * EpsilonDen, 2 * rate_hz)

\* A variant with >= for >.
AbsReaches(dur, cur_len, rate_hz) ==
    Abs(DiffTicks(dur, cur_len)) * 10 >= MaxAbsStretchTenths * 2 * rate_hz

\* abs(diff_sec) > max_abs_stretch
AbsExceeds(dur, cur_len, rate_hz) ==
    Abs(DiffTicks(dur, cur_len)) * 10 > MaxAbsStretchTenths * 2 * rate_hz

NeedStretch(dur, cur_len, rate_hz) ==
    RelExceeds(dur, cur_len, rate_hz) /\ AbsExceeds(dur, cur_len, rate_hz)

\* rate = cur_dur / slot_duration, as <<numerator, denominator>>
RawRate(dur, cur_len) == <<2 * cur_len, dur>>

\* A variant that clips from below only.
ClipRateLowOnly(r) ==
    IF r[1] * 10 < ClipLoTenths * r[2] THEN <<ClipLoTenths, 10>> ELSE r

\* A variant that clips from above only.
ClipRateHighOnly(r) ==
    IF r[1] * 10 > ClipHiTenths * r[2] THEN <<ClipHiTenths, 10>> ELSE r

\* float(np.clip(rate, 0.7, 1.3))
ClipRate(r) ==
    IF r[1] * 10 < ClipLoTenths * r[2] THEN <<ClipLoTenths, 10>>
    ELSE IF r[1] * 10 > ClipHiTenths * r[2] THEN <<ClipHiTenths, 10>>
    ELSE r

\* librosa.effects.time_stretch(audio, rate): an external primitive; any
\* length up to MaxStretchLen may come back.
Stretched(audio, len) ==
    [k \in 1..len |-> 100 + (IF Len(audio) = 0 THEN 0 ELSE audio[1] - 1) + k]
StretchOutputs(audio, rate) == {Stretched(audio, len) : len \in 0..MaxStretchLen}

\* A variant that keeps the last slot_len samples, audio[-slot_len:].
AlignNoStretchKeepTail(audio, slot_len) ==
    IF Len(audio) >= slot_len THEN SubSeq(audio, Len(audio) - slot_len + 1, Len(audio))
    ELSE PadTail(audio, slot_len - Len(audio))

\* lines 184-188: crop/pad the clip to slot_len
AlignNoStretch(audio, slot_len) ==
    IF Len(audio) >= slot_len THEN Prefix(audio, slot_len)
    ELSE PadTail(audio, slot_len - Len(audio))

\* A variant that forgets the zero padding of a short stretch result.
AlignStretchedCropOnly(stretched, slot_len) == Prefix(stretched, slot_len)

\* lines 199-203: crop/pad the stretched clip to slot_len
AlignStretched(stretched, slot_len) ==
    IF Len(stretched) >= slot_len THEN Prefix(stretched, slot_len)
    ELSE PadTail(stretched, slot_len - Len(stretched))

\* ------------------------------------------------------------- the write
\* end_pos = min(start_sample + slot_len, total_samples)
EndPos(start_sample, slot_len, total) == Min(start_sample + slot_len, total)

\* aligned[: end_pos - start_sample]
ClipToTrack(buf, start_sample, end_pos) == Prefix(buf, end_pos - start_sample)

\* track[a:b] = vals of numpy: the slice keeps its length; vals must have
\* that length or length 1 (broadcast), otherwise ValueError.
SliceLo(tr, a) == SliceBound(a, Len(tr))
SliceHi(tr, b) == SliceBound(b, Len(tr))
AssignOK(tr, a, b, vals) ==
    \/ Len(vals) = Max(0, SliceHi(tr, b) - SliceLo(tr, a))
    \/ Len(vals) = 1
\* A variant with the slice assignment of a Python list, which replaces
\* the slice by vals whatever their lengths.
AssignSliceSplice(tr, a, b, vals) ==
    SubSeq(tr, 1, SliceLo(tr, a)) \o vals
        \o SubSeq(tr, Max(SliceLo(tr, a), SliceHi(tr, b)) + 1, Len(tr))

AssignSlice(tr, a, b, vals) ==
    [k \in 1..Len(tr) |->
        IF SliceLo(tr, a) < k /\ k <= SliceHi(tr, b)
        THEN IF Len(vals) = 1 THEN vals[1] ELSE vals[k - SliceLo(tr, a)]
        ELSE tr[k]]

\* lines 211-215: truncate or zero-pad to total_samples
FinalizeTrack(tr, total) ==
    IF Len(tr) > total THEN Prefix(tr, total)
    ELSE IF Len(tr) < total THEN PadTail(tr, total - Len(tr))
    ELSE tr

\* ------------------------------------------------------- the run, main()
\* One pass of the loop body, lines 143-208, as a function of the track:
\* what the second run does with the slot at position pos.  The stretch
\* primitive is deterministic there: on the stretch path the second run
\* gets the buffer this run got for the same clip and slot.
SlotStep(tr, seg, pos, fs, rate_hz, total, stretch_aligned) ==
    LET idx == SegIdx(seg, pos)
        start_sample == StartSample(seg)
        slot_len == SlotLen(seg)
        audio == LoadAudio(fs, idx)
        buf == IF NeedStretch(seg.dur, Len(audio), rate_hz)
               THEN stretch_aligned
               ELSE AlignNoStretch(audio, slot_len)
        end_pos == EndPos(start_sample, slot_len, total)
        clipped == ClipToTrack(buf, start_sample, end_pos)
    IN  IF IsDegenerate(seg) THEN [ok |-> TRUE, track |-> tr]
        ELSE IF ~FileExists(fs, idx) THEN [ok |-> TRUE, track |-> tr]
        ELSE IF LoadFails(fs, idx) THEN [ok |-> FALSE, track |-> tr]
        ELSE IF IsEmptyClip(audio) THEN [ok |-> TRUE, track |-> tr]
        ELSE IF AssignOK(tr, start_sample, end_pos, clipped)
             THEN [ok |-> TRUE, track |-> AssignSlice(tr, start_sample, end_pos, clipped)]
             ELSE [ok |-> FALSE, track |-> tr]

StartTicks == (0 - NegTicks)..MaxStartTick
DurTicks == (0 - 1)..MaxDurTick
ClipLens == 0..MaxClipLen
AlignStartTicks == (0 - AlignNegTicks)..MaxStartTick
AlignDurTicks == (0 - 1)..AlignMaxDurTick
AlignClipLens == 0..AlignMaxClipLen

\* A record as the translation stage writes it: start_sec and end_sec are
\* numbers, there is no start or end key.
Record(start, end, index) ==
    [start_sec |-> Number(start), end_sec |-> Number(end),
     start |-> Absent, end |-> Absent, index |-> index]

\* The JSONL as the translation stage writes it: record p carries index p.
SegmentLists(maxn, starts, durs) ==
    UNION {{[p \in 1..n |-> Record(f[p][1], f[p][1] + f[p][2], p)]
              : f \in [1..n -> starts \X durs]} : n \in 0..maxn}

\* the second run differs from this one in one clip that is empty or absent
TwinChoices(fs) ==
    LET flip == {idx \in DOMAIN fs : fs[idx] \in {NoFile, 0}}
    IN  IF flip = {} THEN {0} ELSE flip
TwinFiles ==
    IF twin_idx = 0 THEN files
    ELSE [files EXCEPT ![twin_idx] = IF @ = NoFile THEN 0 ELSE NoFile]

NoRate == <<0, 1>>
Outcome(kind, buf, stretch, rate) ==
    [kind |-> kind, buf |-> buf, stretch |-> stretch, rate |-> rate]

\* main() before line 125
InitState ==
    /\ processed = <<>>
    /\ track = <<>>
    /\ i = 1
    /\ pc = "prepare"
    /\ aligned = <<>>
    /\ outcome = <<>>
    /\ output = <<>>
    /\ twin_track = <<>>
    /\ twin_ok = TRUE
    /\ segments = <<>>
    /\ jsonl = <<>>
    /\ loaded = <<>>
    /\ given = <<>>
    /\ calls = <<>>
    /\ overwrite = FALSE
    /\ out_dir = <<>>

InitRun ==
    /\ total_samples = TrackLen
    /\ max_segments = NoLimit
    /\ twin_idx \in TwinChoices(files)
    /\ InitState

\* assembly runs: up to MaxSlots slots
Init ==
    /\ sr \in AssemblyRates
    /\ all_segments \in SegmentLists(MaxSlots, StartTicks, DurTicks)
    /\ files \in [1..MaxSlots -> {NoFile} \cup ClipLens]
    /\ InitRun

\* single-slot runs: one slot, a wide range of slot and clip lengths
InitAlign ==
    /\ sr \in SampleRates
    /\ all_segments \in SegmentLists(1, AlignStartTicks, AlignDurTicks)
    /\ files \in [1..1 -> {NoFile} \cup AlignClipLens]
    /\ InitRun

\* runs with clips that may not decode, and a second run on the same inputs
InitDecode ==
    /\ sr \in AssemblyRates
    /\ total_samples = TrackLen
    /\ all_segments \in SegmentLists(MaxSlots, (0 - NegTicks)..DecodeMaxStart, 0..DecodeMaxDur)
    /\ max_segments = NoLimit
    /\ files \in [1..MaxSlots -> {NoFile, Corrupt} \cup ClipLens]
    /\ twin_idx = 0
    /\ InitState

\* The three slots (0.0, 1.0), (1.0, 2.5), (2.5, 3.0) seconds at rate_hz:
\* one second is 2 * rate_hz ticks.
ScenarioSlots(rate_hz) ==
    <<Record(0, 2 * rate_hz, 1),
      Record(2 * rate_hz, 5 * rate_hz, 2),
      Record(5 * rate_hz, 6 * rate_hz, 3)>>

\* a fourth record: none, the empty slot (3.0, 3.0), or the slot (3.5, 5.5)
\* past the end of the track
ScenarioExtras(rate_hz) ==
    {<<>>, <<Record(6 * rate_hz, 6 * rate_hz, 4)>>,
     <<Record(7 * rate_hz, 11 * rate_hz, 4)>>}

ScenarioRates == {2, 4}      \* sample rates of the small scenario runs
ReferenceRate == 16          \* --sample_rate 16000, counted in blocks of 1000 samples

\* scenario runs: a 3 s track with the three slots, each clip of 1.0 s,
\* empty or missing; at the reference rate the clips are 1.0 s, 1.0 s,
\* missing.  Every quantity of the run is a time multiplied by sr, so the
\* run at 16000 Hz is the run at 16 with each sample standing for 1000.
InitScenario ==
    /\ \/ /\ sr \in ScenarioRates
          /\ \E extra \in ScenarioExtras(sr) : all_segments = ScenarioSlots(sr) \o extra
          /\ files \in [1..4 -> {NoFile, 0, sr}]
       \/ /\ sr = ReferenceRate
          /\ all_segments = ScenarioSlots(sr)
          /\ files = <<sr, sr, NoFile, NoFile>>
    /\ total_samples = 3 * sr
    /\ max_segments = NoLimit
    /\ twin_idx = 0
    /\ InitState

\* The values a time key takes in a record; t is its number.
Values(t) == {Absent, Null, Text, Number(t), NumericString(t)}

\* one record, every combination of keys and values; the two pairs carry
\* different times
ShapeLists ==
    {<<[start_sec |-> a, end_sec |-> b, start |-> c, end |-> d, index |-> 1]>> :
        a \in Values(0), b \in Values(4), c \in Values(2), d \in Values(8)}

\* a record of two ticks under one of the key conventions, or with
\* start_sec and end only
Shaped(kind, start, index) ==
    CASE kind = "sec" -> Record(start, start + 2, index)
      [] kind = "plain" -> [start_sec |-> Absent, end_sec |-> Absent,
                            start |-> Number(start), end |-> Number(start + 2),
                            index |-> index]
      [] kind = "mixed" -> [start_sec |-> Number(start), end_sec |-> Absent,
                            start |-> Absent, end |-> Number(start + 2),
                            index |-> index]

\* up to TimelineSlots records in any order of start times
OrderLists ==
    UNION {{[p \in 1..n |-> Shaped(f[p][1], f[p][2], p)]
              : f \in [1..n -> {"sec", "plain", "mixed"} \X (0..TimelineMaxStart)]}
           : n \in 0..TimelineSlots}

\* timeline runs: the records in any shape and order, with or without a
\* limit; they end when the timeline is built
InitTimeline ==
    /\ sr \in AssemblyRates
    /\ total_samples = TrackLen
    /\ all_segments \in ShapeLists \cup OrderLists
    /\ max_segments \in {NoLimit} \cup {<<n>> : n \in 0..TimelineSlots}
    /\ files = [p \in 1..TimelineSlots |-> 1]
    /\ twin_idx = 0
    /\ InitState

inputs == <<sr, total_samples, all_segments, max_segments, files, twin_idx,
            segments, jsonl, loaded, given, calls, overwrite, out_dir>>

\* the records main() goes on with after line 126
Kept == Truncate(all_segments, max_segments)

\* A variant that leaves out the records it cannot read and goes on.
PrepareSkipUnreadable ==
    /\ pc = "prepare"
    /\ LET kept == SelectSeq(Kept, LAMBDA seg : get_slot_times(seg) # SlotError)
       IN  processed' = SortByStart([p \in DOMAIN kept |-> WithTimes(kept[p])])
    /\ pc' = "alloc"
    /\ UNCHANGED <<inputs, track, i, aligned, outcome, output, twin_track, twin_ok>>

\* lines 125-137: cut to max_segments, helper fields, then sort by _start_sec
Prepare ==
    /\ pc = "prepare"
    /\ \A p \in DOMAIN Kept : get_slot_times(Kept[p]) # SlotError
    /\ processed' = SortByStart([p \in DOMAIN Kept |-> WithTimes(Kept[p])])
    /\ pc' = "alloc"
    /\ UNCHANGED <<inputs, track, i, aligned, outcome, output, twin_track, twin_ok>>

\* line 132: get_slot_times raises for a record; the run ends there
ExtractError ==
    /\ pc = "prepare"
    /\ \E p \in DOMAIN Kept : get_slot_times(Kept[p]) = SlotError
    /\ pc' = "failed"
    /\ UNCHANGED <<inputs, processed, track, i, aligned, outcome, output, twin_track, twin_ok>>

\* A variant with np.empty for np.zeros: the track starts with whatever
\* the memory holds.
AllocateUninitialized ==
    /\ pc = "alloc"
    /\ track' \in [1..total_samples -> {0, 1}]
    /\ twin_track' \in [1..total_samples -> {0, 1}]
    /\ i' = 1
    /\ pc' = "loop"
    /\ UNCHANGED <<inputs, processed, aligned, outcome, output, twin_ok>>

\* line 140: track = np.zeros(total_samples)
Allocate ==
    /\ pc = "alloc"
    /\ track' = Zeros(total_samples)
    /\ twin_track' = Zeros(total_samples)
    /\ i' = 1
    /\ pc' = "loop"
    /\ UNCHANGED <<inputs, processed, aligned, outcome, output, twin_ok>>

InLoop == pc = "loop" /\ i <= Len(processed)
Seg == processed[i]
\* A variant that names the clip by the loop position, whatever the record's
\* index.
IdxByPosition == i
Idx == SegIdx(Seg, i)

\* the second run processes the same slot, with the same stretch output
TwinSlot(stretch_aligned) ==
    LET r == SlotStep(twin_track, Seg, i, TwinFiles, sr, total_samples, stretch_aligned)
    IN  IF twin_ok
        THEN twin_track' = r.track /\ twin_ok' = r.ok
        ELSE UNCHANGED <<twin_track, twin_ok>>

Skip(kind) ==
    /\ i' = i + 1
    /\ outcome' = Append(outcome, Outcome(kind, <<>>, FALSE, NoRate))
    /\ TwinSlot(<<>>)
    /\ UNCHANGED <<inputs, processed, track, pc, aligned, output>>

\* lines 148-151: end_sample <= start_sample
SkipDegenerate ==
    /\ InLoop
    /\ IsDegenerate(Seg)
    /\ Skip("degenerate")

\* lines 154-157: the clip file does not exist
SkipMissing ==
    /\ InLoop
    /\ ~IsDegenerate(Seg)
    /\ ~FileExists(files, Idx)
    /\ Skip("missing")

\* line 165 raises: the file exists and cannot be decoded; the run aborts
LoadError ==
    /\ InLoop
    /\ ~IsDegenerate(Seg)
    /\ FileExists(files, Idx)
    /\ LoadFails(files, Idx)
    /\ outcome' = Append(outcome, Outcome("undecodable", <<>>, FALSE, NoRate))
    /\ pc' = "failed"
    /\ TwinSlot(<<>>)
    /\ UNCHANGED <<inputs, processed, track, i, aligned, output>>

\* lines 165-170: the clip decodes to no samples
SkipEmpty ==
    /\ InLoop
    /\ ~IsDegenerate(Seg)
    /\ FileExists(files, Idx)
    /\ ~LoadFails(files, Idx)
    /\ IsEmptyClip(LoadAudio(files, Idx))
    /\ Skip("empty")

CanAlign ==
    /\ InLoop
    /\ ~IsDegenerate(Seg)
    /\ FileExists(files, Idx)
    /\ ~LoadFails(files, Idx)
    /\ ~IsEmptyClip(LoadAudio(files, Idx))

\* lines 172-188: no stretch, crop/pad
AlignPlain ==
    /\ CanAlign
    /\ LET audio == LoadAudio(files, Idx) IN
         /\ ~NeedStretch(Seg.dur, Len(audio), sr)
         /\ aligned' = AlignNoStretch(audio, SlotLen(Seg))
         /\ outcome' = Append(outcome, Outcome("aligned", aligned', FALSE, NoRate))
    /\ pc' = "write"
    /\ UNCHANGED <<inputs, processed, track, i, output, twin_track, twin_ok>>

\* lines 172-180, 189-203: time-stretch at the clipped rate, then crop/pad
AlignStretch ==
    /\ CanAlign
    /\ LET audio == LoadAudio(files, Idx)
           rate == ClipRate(RawRate(Seg.dur, Len(audio))) IN
         /\ NeedStretch(Seg.dur, Len(audio), sr)
         /\ \E stretched \in StretchOutputs(audio, rate) :
              /\ aligned' = AlignStretched(stretched, SlotLen(Seg))
              /\ outcome' = Append(outcome, Outcome("aligned", aligned', TRUE, rate))
    /\ pc' = "write"
    /\ UNCHANGED <<inputs, processed, track, i, output, twin_track, twin_ok>>

\* lines 205-208: clip to the track end and assign
WriteEnd == EndPos(StartSample(Seg), SlotLen(Seg), total_samples)
WriteBuf == ClipToTrack(aligned, StartSample(Seg), WriteEnd)

Write ==
    /\ pc = "write"
    /\ AssignOK(track, StartSample(Seg), WriteEnd, WriteBuf)
    /\ track' = AssignSlice(track, StartSample(Seg), WriteEnd, WriteBuf)
    /\ outcome' = [outcome EXCEPT ![i].kind = "written"]
    /\ aligned' = <<>>
    /\ i' = i + 1
    /\ pc' = "loop"
    /\ TwinSlot(aligned)
    /\ UNCHANGED <<inputs, processed, output>>

\* line 208 raises ValueError: the run aborts, nothing is saved
WriteError ==
    /\ pc = "write"
    /\ ~AssignOK(track, StartSample(Seg), WriteEnd, WriteBuf)
    /\ outcome' = [outcome EXCEPT ![i].kind = "error"]
    /\ pc' = "failed"
    /\ TwinSlot(aligned)
    /\ UNCHANGED <<inputs, processed, track, i, aligned, output>>

LoopEnd ==
    /\ pc = "loop"
    /\ i > Len(processed)
    /\ pc' = "finalize"
    /\ UNCHANGED <<inputs, processed, track, i, aligned, outcome, output, twin_track, twin_ok>>

\* lines 210-215
Finalize ==
    /\ pc = "finalize"
    /\ track' = FinalizeTrack(track, total_samples)
    /\ twin_track' = IF twin_ok THEN FinalizeTrack(twin_track, total_samples) ELSE twin_track
    /\ pc' = "save"
    /\ UNCHANGED <<inputs, processed, i, aligned, outcome, output, twin_ok>>

\* lines 219-221: sf.write(out_wav_path, track, sr)
Save ==
    /\ pc = "save"
    /\ output' = track
    /\ pc' = "done"
    /\ UNCHANGED <<inputs, processed, track, i, aligned, outcome, twin_track, twin_ok>>

Next ==
    \/ Prepare
    \/ Allocate
    \/ SkipDegenerate
    \/ SkipMissing
    \/ SkipEmpty
    \/ AlignPlain
    \/ AlignStretch
    \/ Write
    \/ WriteError
    \/ LoopEnd
    \/ Finalize
    \/ Save

\* runs on records with start and end times and clips that decode
Spec == Init /\ [][Next]_vars
SpecAlign == InitAlign /\ [][Next]_vars

\* runs whose clips may fail to decode
NextDecode ==
    \/ Next
    \/ LoadError

SpecDecode == InitDecode /\ [][NextDecode]_vars

SpecScenario == InitScenario /\ [][Next]_vars

\* lines 125-137 on their own
NextPrepare ==
    \/ Prepare
    \/ ExtractError

SpecTimeline == InitTimeline /\ [][NextPrepare]_vars

\* a record of line p: a slot inside the track, an empty slot, a slot past
\* the end of the track, a start/end record, and two records that cannot
\* be read
ValidateChoices(p) ==
    {Record(0, 2, p), Record(2, 2, p), Record(6, 12, p), Shaped("plain", 0, p),
     Shaped("mixed", 0, p),
     [start_sec |-> Text, end_sec |-> Number(2), start |-> Absent, end |-> Absent,
      index |-> p]}

\* up to TimelineSlots records, line p with index p
ValidateLists ==
    UNION {{f \in [1..n -> UNION {ValidateChoices(p) : p \in 1..n}] :
              \A p \in 1..n : f[p] \in ValidateChoices(p)} : n \in 0..TimelineSlots}

\* whole runs on lists in which any record may be unreadable
InitValidate ==
    /\ sr \in AssemblyRates
    /\ total_samples = TrackLen
    /\ all_segments \in ValidateLists
    /\ max_segments \in {NoLimit} \cup {<<n>> : n \in 1..TimelineSlots}
    /\ files \in [1..TimelineSlots -> {NoFile, 0, 1, 3}]
    /\ twin_idx = 0
    /\ InitState

NextValidate ==
    \/ Next
    \/ ExtractError

SpecValidate == InitValidate /\ [][NextValidate]_vars

\* ==================================== translation cache, translation_api.py
\* A file is a sequence of characters.  The characters of a text: a letter,
\* the letter n, a non-ASCII letter, a space, a line feed, a double quote
\* and a backslash.  Outside strings the file has digits, "-", ".", "{",
\* "}", "," and, as one character each, a key with its quotes, colon and
\* space.
TextChars == {"a", "n", "uml", "SP", "LF", "QT", "BS"}
Keys == <<"index:", "start_sec:", "end_sec:", "text_en:", "text_de:">>

DigitChar(d) == <<"0", "1", "2", "3", "4", "5", "6", "7", "8", "9">>[d + 1]
IsDigit(c) == \E d \in 0..9 : DigitChar(d) = c
DigitVal(c) == CHOOSE d \in 0..9 : DigitChar(d) = c

RECURSIVE FormatNat(_)
FormatNat(n) ==
    IF n < 10 THEN <<DigitChar(n)>>
    ELSE FormatNat(n \div 10) \o <<DigitChar(n % 10)>>

\* json.dumps of an int
FormatInt(n) == IF n < 0 THEN <<"-">> \o FormatNat(0 - n) ELSE FormatNat(n)

\* A variant that writes whole seconds and hundredths, "%.2f".
FormatFloatHundredths(ms) ==
    LET a == Abs(ms)
    IN  (IF ms < 0 THEN <<"-">> ELSE <<>>) \o FormatNat(a \div 1000)
          \o <<".", DigitChar((a \div 100) % 10), DigitChar((a \div 10) % 10)>>

\* json.dumps of a float, float.__repr__: the shortest decimal that reads
\* back as the same float; ms is the float in thousandths
FormatFloat(ms) ==
    LET a == Abs(ms)
        d1 == (a \div 100) % 10
        d2 == (a \div 10) % 10
        d3 == a % 10
    IN  (IF ms < 0 THEN <<"-">> ELSE <<>>) \o FormatNat(a \div 1000) \o <<".">>
          \o (IF d3 # 0 THEN <<DigitChar(d1), DigitChar(d2), DigitChar(d3)>>
              ELSE IF d2 # 0 THEN <<DigitChar(d1), DigitChar(d2)>>
              ELSE <<DigitChar(d1)>>)

\* A variant that leaves the line feed as it is.
EscapeCharRawNewline(c) ==
    CASE c = "QT" -> <<"BS", "QT">>
      [] c = "BS" -> <<"BS", "BS">>
      [] OTHER -> <<c>>

\* json.dumps(..., ensure_ascii=False) of one character of a string
EscapeChar(c) ==
    CASE c = "QT" -> <<"BS", "QT">>
      [] c = "BS" -> <<"BS", "BS">>
      [] c = "LF" -> <<"BS", "n">>
      [] OTHER -> <<c>>

RECURSIVE FormatString(_)
FormatString(text) ==
    IF text = <<>> THEN <<>> ELSE EscapeChar(Head(text)) \o FormatString(Tail(text))

\* timedelta.total_seconds(): a timedelta is a number of milliseconds here
\* and a float a number of thousandths
total_seconds(td) == td

\* lines 84-104: _segment_to_serializable
segment_to_serializable(seg) ==
    [index |-> seg.index,
     start_sec |-> total_seconds(seg.start),
     end_sec |-> total_seconds(seg.end),
     text_en |-> seg.text_en,
     text_de |-> seg.text_de]

\* json.dumps(obj, ensure_ascii=False)
dumps(obj) ==
    <<"{", "index:">> \o FormatInt(obj.index)
      \o <<",", "start_sec:">> \o FormatFloat(obj.start_sec)
      \o <<",", "end_sec:">> \o FormatFloat(obj.end_sec)
      \o <<",", "text_en:", "QT">> \o FormatString(obj.text_en) \o <<"QT">>
      \o <<",", "text_de:", "QT">> \o FormatString(obj.text_de) \o <<"QT">>
      \o <<"}">>

\* lines 114-118: one line per segment
RECURSIVE FileOf(_)
FileOf(segs) ==
    IF segs = <<>> THEN <<>>
    ELSE dumps(segment_to_serializable(Head(segs))) \o <<"LF">> \o FileOf(Tail(segs))

\* file iteration: the lines of the file, each with its line feed
RECURSIVE SplitLines(_, _)
SplitLines(file, cur) ==
    IF file = <<>> THEN (IF cur = <<>> THEN <<>> ELSE <<cur>>)
    ELSE IF Head(file) = "LF"
         THEN <<cur \o <<"LF">>>> \o SplitLines(Tail(file), <<>>)
         ELSE SplitLines(Tail(file), cur \o <<Head(file)>>)

\* str.strip()
IsSpace(c) == c \in {"SP", "LF"}
RECURSIVE StripLeft(_)
StripLeft(line) ==
    IF line # <<>> /\ IsSpace(Head(line)) THEN StripLeft(Tail(line)) ELSE line
RECURSIVE StripRight(_)
StripRight(line) ==
    IF line # <<>> /\ IsSpace(line[Len(line)])
    THEN StripRight(SubSeq(line, 1, Len(line) - 1))
    ELSE line
Strip(line) == StripRight(StripLeft(line))

ParseFail == [ok |-> FALSE, val |-> <<>>, next |-> 0]

\* json.loads: a string from its opening quote at pos - 1; a raw line feed
\* (a control character) and an unknown escape are errors
RECURSIVE ReadString(_, _, _)
ReadString(line, pos, acc) ==
    IF pos > Len(line) THEN ParseFail
    ELSE IF line[pos] = "QT" THEN [ok |-> TRUE, val |-> <<"str", acc>>, next |-> pos + 1]
    ELSE IF line[pos] = "LF" THEN ParseFail
    ELSE IF line[pos] = "BS"
         THEN IF pos + 1 > Len(line) THEN ParseFail
              ELSE IF line[pos + 1] = "QT" THEN ReadString(line, pos + 2, Append(acc, "QT"))
              ELSE IF line[pos + 1] = "BS" THEN ReadString(line, pos + 2, Append(acc, "BS"))
              ELSE IF line[pos + 1] = "n" THEN ReadString(line, pos + 2, Append(acc, "LF"))
              ELSE ParseFail
    ELSE ReadString(line, pos + 1, Append(acc, line[pos]))

RECURSIVE NatOf(_)
NatOf(digits) ==
    IF digits = <<>> THEN 0
    ELSE 10 * NatOf(SubSeq(digits, 1, Len(digits) - 1)) + DigitVal(digits[Len(digits)])

RECURSIVE DigitsEnd(_, _)
DigitsEnd(line, pos) ==
    IF pos <= Len(line) /\ IsDigit(line[pos]) THEN DigitsEnd(line, pos + 1) ELSE pos

\* json.loads: a number from pos, -?digits(.digits)?; without fraction an
\* int, with it a float (in thousandths: up to three decimals are read)
ReadNumber(line, pos) ==
    LET neg == pos <= Len(line) /\ line[pos] = "-"
        from == IF neg THEN pos + 1 ELSE pos
        dot == DigitsEnd(line, from)
        whole == NatOf(SubSeq(line, from, dot - 1))
        isfloat == dot <= Len(line) /\ line[dot] = "."
        end == IF isfloat THEN DigitsEnd(line, dot + 1) ELSE dot
        frac == SubSeq(line, dot + 1, end - 1)
        thousandths == NatOf(SubSeq(frac \o <<"0", "0", "0">>, 1, 3))
        sign == IF neg THEN 0 - 1 ELSE 1
    IN  IF dot = from THEN ParseFail
        ELSE IF ~isfloat THEN [ok |-> TRUE, val |-> <<"int", sign * whole>>, next |-> dot]
        ELSE IF end = dot + 1 \/ Len(frac) > 3 THEN ParseFail
        ELSE [ok |-> TRUE, val |-> <<"float", sign * (1000 * whole + thousandths)>>,
              next |-> end]

\* json.loads: the members of an object from pos on
RECURSIVE ReadMembers(_, _, _)
ReadMembers(line, pos, obj) ==
    IF pos + 1 > Len(line) \/ line[pos] \notin {Keys[k] : k \in DOMAIN Keys} THEN ParseFail
    ELSE LET v == IF line[pos + 1] = "QT" THEN ReadString(line, pos + 2, <<>>)
                  ELSE ReadNumber(line, pos + 1)
             more == (line[pos] :> v.val) @@ obj
         IN  IF ~v.ok \/ v.next > Len(line) THEN ParseFail
             ELSE IF line[v.next] = "," THEN ReadMembers(line, v.next + 1, more)
             ELSE IF line[v.next] = "}" /\ v.next = Len(line)
                  THEN [ok |-> TRUE, val |-> more, next |-> v.next + 1]
             ELSE ParseFail

\* json.loads(line)
loads(line) ==
    IF Len(line) < 2 \/ line[1] # "{" THEN ParseFail
    ELSE IF line = <<"{", "}">> THEN [ok |-> TRUE, val |-> <<>>, next |-> 3]
    ELSE ReadMembers(line, 2, <<>>)

\* lines 130-135: strip each line, skip the empty ones, json.loads the rest
RECURSIVE LoadLines(_)
LoadLines(lines) ==
    IF lines = <<>> THEN [ok |-> TRUE, segs |-> <<>>]
    ELSE LET line == Strip(Head(lines))
             rest == LoadLines(Tail(lines))
         IN  IF line = <<>> THEN rest
             ELSE IF loads(line).ok /\ rest.ok
                  THEN [ok |-> TRUE, segs |-> <<loads(line).val>> \o rest.segs]
                  ELSE [ok |-> FALSE, segs |-> <<>>]

load_translations_jsonl(file) == LoadLines(SplitLines(file, <<>>))

\* the texts, times (a timedelta in ms) and indexes of the cached segments
Texts == UNION {[1..k -> TextChars] : k \in 0..MaxTextLen}
CacheTimes == {0 - 500, 0, 5, 1500, 62010}
CacheIndexes == {1, 12}
CacheSegmentChoices ==
    {[index |-> 1, start |-> 0, end |-> 1500, text_en |-> t, text_de |-> <<"uml">>]
        : t \in Texts}
    \cup {[index |-> x, start |-> a, end |-> b, text_en |-> <<"a">>, text_de |-> <<>>]
            : x \in CacheIndexes, a \in CacheTimes, b \in CacheTimes}
SegmentsToCache == UNION {[1..n -> CacheSegmentChoices] : n \in 0..CacheSegments}

\* files that were not written by save_translations_jsonl
GivenLine == <<"{", "index:", "7", ",", "text_de:", "QT", "a", "QT", "}">>
GivenFiles ==
    {<<>>, <<"LF">>, <<"SP", "LF">>, GivenLine,
     <<"LF", "SP">> \o GivenLine \o <<"SP", "LF", "LF">>,
     <<"{", "index:", "7">>,
     <<"{", "text_de:", "QT", "a", "LF", "QT", "}", "LF">>,
     <<"a", "LF">>,
     GivenLine \o <<"LF", "{", "}", "LF">>}

audio_vars == <<sr, total_samples, all_segments, max_segments, files, processed,
                track, i, aligned, outcome, output, twin_idx, twin_track, twin_ok>>
stage_vars == <<given, calls, overwrite, out_dir>>

\* cache runs: save a list of segments and load it back, or load a given file
InitCache ==
    /\ sr \in AssemblyRates
    /\ total_samples = TrackLen
    /\ all_segments = <<>>
    /\ max_segments = NoLimit
    /\ files = [p \in 1..MaxSlots |-> NoFile]
    /\ processed = <<>> /\ track = <<>> /\ i = 1 /\ aligned = <<>>
    /\ outcome = <<>> /\ output = <<>>
    /\ twin_idx = 0 /\ twin_track = <<>> /\ twin_ok = TRUE
    /\ loaded = <<>>
    /\ given = <<>> /\ calls = <<>> /\ overwrite = FALSE /\ out_dir = <<>>
    /\ \/ pc = "cache_save" /\ segments \in SegmentsToCache /\ jsonl = <<>>
       \/ pc = "cache_load" /\ segments = <<>> /\ jsonl \in GivenFiles

\* lines 107-119: save_translations_jsonl
SaveTranslations ==
    /\ pc = "cache_save"
    /\ jsonl' = FileOf(segments)
    /\ pc' = "cache_load"
    /\ UNCHANGED <<audio_vars, stage_vars, segments, loaded>>

\* lines 122-136: load_translations_jsonl returns
LoadTranslations ==
    /\ pc = "cache_load"
    /\ load_translations_jsonl(jsonl).ok
    /\ loaded' = load_translations_jsonl(jsonl).segs
    /\ pc' = "cache_done"
    /\ UNCHANGED <<audio_vars, stage_vars, segments, jsonl>>

\* line 134: json.loads raises
LoadTranslationsError ==
    /\ pc = "cache_load"
    /\ ~load_translations_jsonl(jsonl).ok
    /\ pc' = "cache_failed"
    /\ UNCHANGED <<audio_vars, stage_vars, segments, jsonl, loaded>>

NextCache ==
    \/ SaveTranslations
    \/ LoadTranslations
    \/ LoadTranslationsError

SpecCache == InitCache /\ [][NextCache]_vars

\* ============================= translate_segments, translation_api.py 39-79
\* A text value of a segment: Absent (no such key), Null (None) or a string.
Str(chars) == <<"str", chars>>
EmptyStr == Str(<<>>)

\* seg.get(key, default)
Get(seg, key, default) == IF seg[key] = Absent THEN default ELSE seg[key]
\* v or w
Or(v, w) == IF v \in {Null, EmptyStr} THEN w ELSE v

\* A variant that takes only the empty string for blank, text == "".
IsBlankEmptyOnly(text) == text = EmptyStr

\* line 43: not text.strip()
IsBlank(text) == Strip(text[2]) = <<>>

\* line 59: (resp.text or "").strip()
Answer(resp_text) == Str(Strip(Or(resp_text, EmptyStr)[2]))

\* line 77: seg.get(text_key, "") or ""
SourceText(seg) == Or(Get(seg, "text_en", EmptyStr), EmptyStr)

\* what a segment has under text_en, and what the backend's resp.text may be
SourceTexts ==
    {Absent, Null, EmptyStr, Str(<<"SP">>), Str(<<"a">>), Str(<<"SP", "a">>)}
BackendTexts == {Null, EmptyStr, Str(<<"uml">>), Str(<<"SP", "uml", "LF">>)}

\* segments of the subtitle parser, some with a text_de from an earlier run
SegmentsToTranslate ==
    UNION {{[p \in 1..n |-> [index |-> p, text_en |-> f[p][1], text_de |-> f[p][2]]]
              : f \in [1..n -> SourceTexts \X {Absent, Str(<<"a">>)}]}
           : n \in 0..MaxSegments}

\* the audio stage at rest
AudioIdle ==
    /\ sr \in AssemblyRates
    /\ total_samples = TrackLen
    /\ all_segments = <<>>
    /\ files = [p \in 1..MaxSlots |-> NoFile]
    /\ processed = <<>> /\ track = <<>> /\ aligned = <<>>
    /\ outcome = <<>> /\ output = <<>>
    /\ twin_idx = 0 /\ twin_track = <<>> /\ twin_ok = TRUE

\* a call translate_segments(segments)
InitTranslate ==
    /\ AudioIdle
    /\ max_segments = NoLimit
    /\ segments \in SegmentsToTranslate
    /\ given = segments
    /\ calls = <<>>
    /\ i = 1
    /\ pc = "translate"
    /\ jsonl = <<>> /\ loaded = <<>> /\ overwrite = FALSE /\ out_dir = <<>>

translate_frame == <<sr, total_samples, all_segments, max_segments, files, processed,
                     track, aligned, outcome, output, twin_idx, twin_track, twin_ok,
                     jsonl, loaded, given, overwrite, out_dir>>

\* lines 76-78 with line 43-44: blank text, no request
TranslateBlank ==
    /\ pc = "translate"
    /\ i <= Len(segments)
    /\ IsBlank(SourceText(segments[i]))
    /\ segments' = [segments EXCEPT ![i].text_de = EmptyStr]
    /\ i' = i + 1
    /\ UNCHANGED <<translate_frame, calls, pc>>

\* lines 76-78 with lines 46-59: one generate_content request
TranslateCall ==
    /\ pc = "translate"
    /\ i <= Len(segments)
    /\ ~IsBlank(SourceText(segments[i]))
    /\ \E resp_text \in BackendTexts :
         /\ calls' = Append(calls, [pos |-> i, text |-> SourceText(segments[i]),
                                    answer |-> resp_text])
         /\ segments' = [segments EXCEPT ![i].text_de = Answer(resp_text)]
    /\ i' = i + 1
    /\ UNCHANGED <<translate_frame, pc>>

\* line 53: generate_content raises; translate_segments does not catch it
TranslateRaises ==
    /\ pc = "translate"
    /\ i <= Len(segments)
    /\ ~IsBlank(SourceText(segments[i]))
    /\ calls' = Append(calls, [pos |-> i, text |-> SourceText(segments[i]),
                               answer |-> <<"raised">>])
    /\ pc' = "failed"
    /\ UNCHANGED <<translate_frame, segments, i>>

\* line 79: return segments
TranslateReturn ==
    /\ pc = "translate"
    /\ i > Len(segments)
    /\ pc' = "translated"
    /\ UNCHANGED <<translate_frame, segments, calls, i>>

NextTranslate ==
    \/ TranslateBlank
    \/ TranslateCall
    \/ TranslateRaises
    \/ TranslateReturn

SpecTranslate == InitTranslate /\ [][NextTranslate]_vars

\* ======================================= TTS stage, run_tts_segments.py
\* The content of seg_<idx>.mp3 in out_dir:
Unwritten == <<"unwritten">>          \* the file does not exist
ZeroBytes == <<"bytes">>              \* write_bytes(b"")
Mp3(chars) == <<"mp3", chars>>        \* resp.content for the text chars
Earlier == <<"earlier">>              \* a file that was there before the run

\* line 93: seg.get("text_de", "") or seg.get("text", "")
TextOf(seg) == Or(Get(seg, "text_de", EmptyStr), Get(seg, "text", EmptyStr))

\* tts_api.py line 55: (text or "").strip()
Spoken(text) == Strip(Or(text, EmptyStr)[2])

\* A variant that skips whenever the file is there, --overwrite or not.
SkipExistingAlways(dir, idx, ow) == dir[idx] # Unwritten

\* line 96: out_path.exists() and not args.overwrite
SkipExisting(dir, idx, ow) == dir[idx] # Unwritten /\ ~ow

\* lines 85-86: segments[: args.max_segments]
KeptTts == Truncate(segments, max_segments)
TtsSeg == KeptTts[i]
TtsIdx == SegIdx(TtsSeg, i)
InTts == pc = "tts" /\ i <= Len(KeptTts)

\* the records of a JSONL for this stage: with or without index, with
\* text_de, with text only, or without text
TtsTexts ==
    {<<Str(<<"a">>), Absent>>, <<EmptyStr, Str(<<"n">>)>>, <<Absent, Absent>>}
TtsIndexes == {NoIndex, 1, MaxSegments}
SegmentsToSpeak ==
    UNION {{[p \in 1..n |-> [index |-> f[p][1], text_de |-> f[p][2][1],
                             text |-> f[p][2][2]]]
              : f \in [1..n -> TtsIndexes \X TtsTexts]}
           : n \in 0..MaxSegments}

\* a run of the stage on an out_dir in which any file may exist already
InitTts ==
    /\ AudioIdle
    /\ segments \in SegmentsToSpeak
    /\ max_segments \in {NoLimit, <<MaxSegments - 1>>}
    /\ overwrite \in BOOLEAN
    /\ out_dir \in [1..MaxSegments -> {Unwritten, Earlier}]
    /\ calls = <<>>
    /\ i = 1
    /\ pc = "tts"
    /\ given = <<>> /\ jsonl = <<>> /\ loaded = <<>>

tts_frame == <<sr, total_samples, all_segments, max_segments, files, processed,
               track, aligned, outcome, output, twin_idx, twin_track, twin_ok,
               segments, jsonl, loaded, given, overwrite>>

TtsLog(kind) == calls' = Append(calls, [pos |-> i, idx |-> TtsIdx, kind |-> kind])

\* lines 96-98: the file is there and --overwrite is not set
TtsSkip ==
    /\ InTts
    /\ SkipExisting(out_dir, TtsIdx, overwrite)
    /\ TtsLog("skip")
    /\ i' = i + 1
    /\ UNCHANGED <<tts_frame, out_dir, pc>>

\* line 102 with tts_api.py lines 55-60: no text, an empty file is written
TtsWriteEmpty ==
    /\ InTts
    /\ ~SkipExisting(out_dir, TtsIdx, overwrite)
    /\ Spoken(TextOf(TtsSeg)) = <<>>
    /\ out_dir' = [out_dir EXCEPT ![TtsIdx] = ZeroBytes]
    /\ TtsLog("empty")
    /\ i' = i + 1
    /\ UNCHANGED <<tts_frame, pc>>

\* line 102 with tts_api.py lines 62-89: the request succeeds
TtsSynthesized ==
    /\ InTts
    /\ ~SkipExisting(out_dir, TtsIdx, overwrite)
    /\ Spoken(TextOf(TtsSeg)) # <<>>
    /\ out_dir' = [out_dir EXCEPT ![TtsIdx] = Mp3(Spoken(TextOf(TtsSeg)))]
    /\ TtsLog("ok")
    /\ i' = i + 1
    /\ UNCHANGED <<tts_frame, pc>>

\* A variant without the try: the exception ends the run.
TtsSynthesisFailedUncaught ==
    /\ InTts
    /\ ~SkipExisting(out_dir, TtsIdx, overwrite)
    /\ Spoken(TextOf(TtsSeg)) # <<>>
    /\ TtsLog("error")
    /\ pc' = "failed"
    /\ UNCHANGED <<tts_frame, out_dir, i>>

\* lines 101-104 with tts_api.py lines 82-83: the request raises (timeout,
\* connection, HTTP status); the exception is caught and reported
TtsSynthesisFailed ==
    /\ InTts
    /\ ~SkipExisting(out_dir, TtsIdx, overwrite)
    /\ Spoken(TextOf(TtsSeg)) # <<>>
    /\ TtsLog("error")
    /\ i' = i + 1
    /\ UNCHANGED <<tts_frame, out_dir, pc>>

\* line 106
TtsDone ==
    /\ pc = "tts"
    /\ i > Len(KeptTts)
    /\ pc' = "tts_done"
    /\ UNCHANGED <<tts_frame, out_dir, calls, i>>

NextTts ==
    \/ TtsSkip
    \/ TtsWriteEmpty
    \/ TtsSynthesized
    \/ TtsSynthesisFailed
    \/ TtsDone

SpecTts == InitTts /\ [][NextTts]_vars

\* The stage is one sequential loop and every request has a timeout
\* (tts_api.py line 82), so a step that can be taken is taken.
SpecTtsLive == SpecTts /\ WF_vars(NextTts)

\* ============ the TTS stage and the aligner on one JSONL, one after the other
\* line p of the JSONL: its German text is p letters, or empty
LineText(p) == Str([k \in 1..p |-> "a"])
StageStarts == {0, 2, 4}

\* the same lines as the aligner reads them (times, index) and as the TTS
\* stage reads them (index, text_de); the start times differ from line to
\* line and are in any order
StageLists ==
    UNION {{f \in [1..n -> StageStarts \X ({NoIndex} \cup 1..MaxSegments) \X BOOLEAN] :
              \A p, q \in 1..n : p # q => f[p][1] # f[q][1]}
           : n \in 0..MaxSegments}

InitStages ==
    /\ sr \in AssemblyRates
    /\ total_samples = TrackLen
    /\ max_segments = NoLimit
    /\ \E f \in StageLists :
         /\ all_segments = [p \in DOMAIN f |-> Record(f[p][1], f[p][1] + 2, f[p][2])]
         /\ segments = [p \in DOMAIN f |->
                          [index |-> f[p][2],
                           text_de |-> IF f[p][3] THEN LineText(p) ELSE EmptyStr,
                           text |-> Absent]]
    /\ files = [idx \in 1..MaxSegments |-> NoFile]
    /\ overwrite \in BOOLEAN
    /\ out_dir = [idx \in 1..MaxSegments |-> Unwritten]
    /\ processed = <<>> /\ track = <<>> /\ aligned = <<>>
    /\ outcome = <<>> /\ output = <<>>
    /\ twin_idx = 0 /\ twin_track = <<>> /\ twin_ok = TRUE
    /\ calls = <<>>
    /\ i = 1
    /\ pc = "tts"
    /\ given = <<>> /\ jsonl = <<>> /\ loaded = <<>>

\* what librosa.load makes of a file of out_dir: an empty file cannot be
\* decoded, a synthesized text gives a sample per letter
Decoded(content) ==
    CASE content = Unwritten -> NoFile
      [] content = ZeroBytes -> Corrupt
      [] content = Earlier -> 1
      [] OTHER -> Len(content[2])

\* run_align_concat_audio is started with --segments_dir = the TTS out_dir
\* and the same --jsonl
StartAlign ==
    /\ pc = "tts_done"
    /\ files' = [idx \in DOMAIN out_dir |-> Decoded(out_dir[idx])]
    /\ i' = 1
    /\ pc' = "prepare"
    /\ UNCHANGED <<sr, total_samples, all_segments, max_segments, processed, track,
                   aligned, outcome, output, twin_idx, twin_track, twin_ok,
                   segments, jsonl, loaded, given, calls, overwrite, out_dir>>

NextStages ==
    \/ NextTts
    \/ StartAlign
    \/ Prepare

SpecStages == InitStages /\ [][NextStages]_vars

\* ================================================================ claims
\* The claims speak of samples and windows in their own terms: round() as
\* the nearest integer with ties to the even one, a window as a set of
\* sample positions.
NearestInt(t) ==
    CHOOSE n \in ((t \div 2) - 1)..((t \div 2) + 1) :
        /\ Abs(2 * n - t) <= 1
        /\ Abs(2 * n - t) = 1 => n % 2 = 0
SlotStart(k) == NearestInt(processed[k].start)
SlotWidth(k) == NearestInt(processed[k].end) - NearestInt(processed[k].start)
Window(k) == {s \in SlotStart(k)..(SlotStart(k) + SlotWidth(k) - 1) : SlotWidth(k) > 0}
TrackRange == 0..(total_samples - 1)
Allocated == pc \in {"loop", "write", "failed", "finalize", "save", "done"}
ClipLenOf(k) == files[SegIdx(processed[k], k)]
HasClip(k) == ClipLenOf(k) # NoFile /\ ClipLenOf(k) > 0
LaterWindows(k) == UNION {Window(m) : m \in (k + 1)..Len(processed)}

\* C1: from allocation to hand-off the track has exactly total_samples
\* samples, so the finalization step is the identity and the saved track
\* has total_samples samples.
C1_TrackLengthFixed ==
    /\ Allocated => Len(track) = total_samples
    /\ pc = "finalize" => FinalizeTrack(track, total_samples) = track
    /\ pc = "done" => Len(output) = total_samples

\* C1 witness: a run that wrote a slot reaching past the track end and a
\* slot inside the track has been saved.
C1_Witness ==
    /\ pc = "done"
    /\ Len(output) = total_samples
    /\ \E k \in DOMAIN outcome :
         outcome[k].kind = "written" /\ SlotStart(k) + SlotWidth(k) > total_samples
    /\ \E k \in DOMAIN outcome :
         outcome[k].kind = "written" /\ Window(k) \subseteq TrackRange

\* C2: in the saved track, a slot with a non-empty clip whose window lies
\* inside the track and meets no later slot's window holds its aligned
\* buffer sample for sample, from round(start_sec * sr) on.
C2_SampleAccuratePlacement ==
    pc = "done" =>
        \A k \in DOMAIN processed :
            (/\ SlotWidth(k) > 0
             /\ HasClip(k)
             /\ Window(k) \subseteq TrackRange
             /\ Window(k) \cap LaterWindows(k) = {})
            => /\ outcome[k].kind = "written"
               /\ Len(outcome[k].buf) = SlotWidth(k)
               /\ \A j \in 0..(SlotWidth(k) - 1) :
                    output[SlotStart(k) + j + 1] = outcome[k].buf[j + 1]

\* C2 witness: a saved run with two written slots, the first starting on a
\* half sample, inside the track and clear of the second.
C2_Witness ==
    /\ pc = "done"
    /\ Len(processed) = 2
    /\ outcome[1].kind = "written" /\ outcome[2].kind = "written"
    /\ processed[1].start % 2 = 1
    /\ Window(1) \subseteq TrackRange
    /\ Window(1) \cap Window(2) = {}
    /\ output[SlotStart(1) + 1] = outcome[1].buf[1]
    /\ output[SlotStart(1) + 1] # 0

\* the aligned buffer the claims ascribe to a slot: silence when it has no clip
BufferOf(k) == IF outcome[k].kind = "written" THEN outcome[k].buf ELSE Zeros(SlotWidth(k))

\* C3: in the saved track every sample in the intersection of two slots'
\* windows is the later slot's aligned-buffer sample.
C3_LaterSlotWins ==
    pc = "done" =>
        \A a \in DOMAIN processed : \A b \in DOMAIN processed :
            a < b =>
                \A s \in (Window(a) \cap Window(b)) \cap TrackRange :
                    output[s + 1] = BufferOf(b)[s - SlotStart(b) + 1]

\* the slot being written, in the claims' terms
CurTicks == processed[i].end - processed[i].start
CurClipLen == ClipLenOf(i)
CurGap == Abs(CurTicks - 2 * CurClipLen)
CurClip == LoadAudio(files, SegIdx(processed[i], i))
AtWrite == pc = "write"

\* C4: every processed slot with slot_len > 0 and a clip file of any
\* length, zero samples included, has an aligned buffer of exactly slot_len
\* samples, on the no-stretch path and on the stretch path, whatever length
\* the stretch primitive returned.
C4_AlignedLength ==
    /\ AtWrite => Len(aligned) = SlotWidth(i)
    /\ \A k \in DOMAIN outcome :
         (SlotWidth(k) > 0 /\ ClipLenOf(k) # NoFile)
              => /\ outcome[k].kind \in {"aligned", "written", "error"}
                 /\ Len(outcome[k].buf) = SlotWidth(k)

\* What holds of C4: every aligned buffer the run produces has slot_len
\* samples, and every processed slot with slot_len > 0 and a clip of one
\* sample or more got one.
AlignedLengthNonEmpty ==
    /\ AtWrite => Len(aligned) = SlotWidth(i)
    /\ \A k \in DOMAIN outcome :
         /\ outcome[k].kind \in {"aligned", "written", "error"}
              => Len(outcome[k].buf) = SlotWidth(k)
         /\ (SlotWidth(k) > 0 /\ HasClip(k))
              => outcome[k].kind \in {"aligned", "written", "error"}

\* reached: the stretch path with a clip ten times as long as the slot
AlignedLengthReached ==
    /\ AtWrite
    /\ outcome[i].stretch
    /\ CurClipLen = 10 * SlotWidth(i)
    /\ Len(aligned) = SlotWidth(i)

\* C5: the clip is time-stretched iff the relative difference exceeds 0.2
\* and the absolute difference exceeds 0.4 s, both strictly; otherwise the
\* aligned buffer holds only samples of the clip and zeros.
\* With d ticks of slot and c samples of clip: |diff| / slot_dur > 0.2 is
\* 5 * |d - 2c| > d, and |diff| > 0.4 s is 5 * |d - 2c| > 4 * sr.
C5_StretchDecision ==
    AtWrite =>
        /\ outcome[i].stretch <=> (5 * CurGap > CurTicks /\ 5 * CurGap > 4 * sr)
        /\ ~outcome[i].stretch =>
             \A k \in DOMAIN aligned :
                 aligned[k] = 0 \/ \E j \in DOMAIN CurClip : aligned[k] = CurClip[j]

\* C5 witness: the absolute difference is exactly 0.4 s, the relative one
\* is above 0.2, and the clip is not stretched.
C5_Witness ==
    /\ AtWrite
    /\ 5 * CurGap = 4 * sr
    /\ 5 * CurGap > CurTicks
    /\ ~outcome[i].stretch

\* C6: on the no-stretch path the aligned buffer starts with the clip's
\* first min(clip_len, slot_len) samples and is zero from there to slot_len.
C6_CropPadOnly ==
    (AtWrite /\ ~outcome[i].stretch) =>
        /\ Len(aligned) = SlotWidth(i)
        /\ \A k \in 1..SlotWidth(i) :
             aligned[k] = IF k <= CurClipLen THEN CurClip[k] ELSE 0

\* C6 witness: a clip longer than its slot, cropped without stretching.
C6_Witness ==
    /\ AtWrite
    /\ ~outcome[i].stretch
    /\ CurClipLen > SlotWidth(i)
    /\ SlotWidth(i) >= 2
    /\ aligned = SubSeq(CurClip, 1, SlotWidth(i))

\* C7: on the stretch path the rate is cur_dur / slot_dur = 2c / d clipped
\* into [0.7, 1.3]: within the bounds, the upper bound for a raw ratio
\* above it, the lower bound for one below it, the raw ratio otherwise.
C7_RateClamped ==
    (AtWrite /\ outcome[i].stretch) =>
        LET r == outcome[i].rate IN
        /\ r[2] > 0
        /\ 7 * r[2] <= 10 * r[1] /\ 10 * r[1] <= 13 * r[2]
        /\ 20 * CurClipLen > 13 * CurTicks => 10 * r[1] = 13 * r[2]
        /\ 20 * CurClipLen < 7 * CurTicks => 10 * r[1] = 7 * r[2]
        /\ (7 * CurTicks <= 20 * CurClipLen /\ 20 * CurClipLen <= 13 * CurTicks)
             => r[1] * CurTicks = 2 * CurClipLen * r[2]

\* C7 witness: a raw ratio of exactly 5.0 is stretched at rate 1.3.
C7_Witness ==
    /\ AtWrite
    /\ outcome[i].stretch
    /\ 2 * CurClipLen = 5 * CurTicks
    /\ outcome[i].rate = <<13, 10>>

\* C8: a write for a slot whose window reaches past total_samples does not
\* fail; it puts the first total_samples - start_sample samples of the
\* aligned buffer into [start_sample, total_samples) and changes nothing
\* else of the track.
C8_TrackEndTruncation ==
    [][(AtWrite /\ SlotStart(i) + SlotWidth(i) > total_samples) =>
          /\ pc' = "loop"
          /\ track' = [s \in 1..Len(track) |->
                          IF SlotStart(i) < s /\ s <= total_samples
                          THEN aligned[s - SlotStart(i)]
                          ELSE track[s]]]_vars

\* C9: in the saved track the window of a slot whose clip file is missing
\* is zero wherever no later slot's window covers it.
C9_MissingWindowSilent ==
    pc = "done" =>
        \A k \in DOMAIN processed :
            (SlotWidth(k) > 0 /\ ClipLenOf(k) = NoFile) =>
                \A s \in (Window(k) \cap TrackRange) \ LaterWindows(k) :
                    output[s + 1] = 0

\* C10: a second run that differs from this one only in that one clip is
\* empty in one of them and absent in the other has the same track at every
\* point, fails if and only if this one fails, and ends with the same saved
\* track; the slot of that clip raises no error.
C10_EmptyLikeAbsent ==
    twin_idx # 0 =>
        /\ twin_track = track
        /\ twin_ok <=> pc # "failed"
        /\ pc = "done" => output = twin_track
        /\ \A k \in DOMAIN outcome :
             SegIdx(processed[k], k) = twin_idx
                 => outcome[k].kind \in {"degenerate", "missing", "empty"}

\* C10 witness: a saved run whose empty clip (absent in the second run)
\* belongs to a slot inside the track that an earlier slot has written over.
C10_Witness ==
    /\ pc = "done"
    /\ twin_idx # 0
    /\ files[twin_idx] = 0
    /\ output = twin_track
    /\ \E k \in DOMAIN processed :
         /\ SegIdx(processed[k], k) = twin_idx
         /\ outcome[k].kind = "empty"
         /\ Window(k) \subseteq TrackRange
         /\ \E s \in Window(k) : output[s + 1] # 0

\* ------------------------------------------------------------ C11..C20
\* the records of the JSONL, in the claims' terms
PairComplete(rec, a, b) == rec[a] # Absent /\ rec[b] # Absent
IsNumber(v) == v # Absent /\ v # Null /\ v # Text
\* the pair a record is read by: start_sec/end_sec when complete, else
\* start/end when complete
UsedPair(rec) ==
    IF PairComplete(rec, "start_sec", "end_sec") THEN <<"start_sec", "end_sec">>
    ELSE IF PairComplete(rec, "start", "end") THEN <<"start", "end">>
    ELSE <<>>
Acceptable(rec) ==
    /\ UsedPair(rec) # <<>>
    /\ IsNumber(rec[UsedPair(rec)[1]])
    /\ IsNumber(rec[UsedPair(rec)[2]])
TimelineBuilt == pc = "alloc"
SlotsOf(p) == {k \in DOMAIN processed : processed[k].index = p}

\* C12: slot extraction succeeds exactly when every record carries a
\* complete start_sec/end_sec pair or a complete start/end pair whose two
\* values are numbers or numeric strings; the slot then has the times of
\* that pair; a record with neither pair complete (start_sec with end, say)
\* or with a null or non-numeric value makes extraction fail.
C12_RecordValidation ==
    max_segments = NoLimit =>
        /\ TimelineBuilt =>
             \A p \in DOMAIN all_segments :
                 LET rec == all_segments[p] IN
                 /\ Acceptable(rec)
                 /\ \E k \in SlotsOf(p) :
                      /\ processed[k].start = rec[UsedPair(rec)[1]][2]
                      /\ processed[k].end = rec[UsedPair(rec)[2]][2]
        /\ pc = "failed" => \E p \in DOMAIN all_segments : ~Acceptable(all_segments[p])

\* C12 witness: extraction failed on a record that has start_sec and end,
\* both numbers, and neither end_sec nor start.
C12_Witness ==
    /\ pc = "failed"
    /\ max_segments = NoLimit
    /\ Len(all_segments) = 1
    /\ all_segments[1]["start_sec"] = Number(0)
    /\ all_segments[1]["end"] = Number(8)
    /\ all_segments[1]["end_sec"] = Absent
    /\ all_segments[1]["start"] = Absent

\* C13: without a limit the processed sequence holds every input record
\* once, in non-decreasing order of start, records with equal start in
\* their input order.
C13_TimelineOrder ==
    (TimelineBuilt /\ max_segments = NoLimit) =>
        /\ Len(processed) = Len(all_segments)
        /\ \A p \in DOMAIN all_segments : Cardinality(SlotsOf(p)) = 1
        /\ \A k \in DOMAIN processed : \A m \in DOMAIN processed :
             k < m =>
                 /\ processed[k].start <= processed[m].start
                 /\ processed[k].start = processed[m].start
                      => processed[k].index < processed[m].index

\* C13 witness: three records given as (late, early, late) come out as
\* second, first, third.
C13_Witness ==
    /\ TimelineBuilt
    /\ max_segments = NoLimit
    /\ Len(processed) = 3
    /\ processed[1].index = 2 /\ processed[2].index = 1 /\ processed[3].index = 3
    /\ processed[2].start = processed[3].start
    /\ processed[1].start < processed[2].start

\* record p comes before record q in the stably sorted timeline
ComesBefore(p, q) ==
    LET sp == all_segments[p][UsedPair(all_segments[p])[1]][2]
        sq == all_segments[q][UsedPair(all_segments[q])[1]][2]
    IN  sp < sq \/ (sp = sq /\ p < q)

\* C14: with a limit N the processed slots are the first N of the stably
\* sorted timeline: min(N, number of records) slots, and every record
\* processed comes before every record left out.
C14_LimitIsSortedPrefix ==
    (/\ TimelineBuilt
     /\ max_segments # NoLimit
     /\ \A p \in DOMAIN all_segments : Acceptable(all_segments[p])) =>
        /\ Len(processed) = Min(max_segments[1], Len(all_segments))
        /\ \A p \in DOMAIN all_segments : \A q \in DOMAIN all_segments :
             (SlotsOf(p) # {} /\ SlotsOf(q) = {}) => ComesBefore(p, q)

\* C11: a clip that exists and cannot be decoded does not abort the run:
\* no run has failed once a slot met such a clip, and a finished run has
\* gone through every slot, saved total_samples samples and left the
\* window of every such slot silent where no later slot covers it.
C11_DecodeFailureIsolated ==
    /\ \A k \in DOMAIN outcome :
         (SlotWidth(k) > 0 /\ ClipLenOf(k) = Corrupt) => pc # "failed"
    /\ pc = "done" =>
         /\ Len(outcome) = Len(processed)
         /\ Len(output) = total_samples
         /\ \A k \in DOMAIN processed :
              (SlotWidth(k) > 0 /\ ClipLenOf(k) = Corrupt) =>
                  \A s \in (Window(k) \cap TrackRange) \ LaterWindows(k) :
                      output[s + 1] = 0

\* C15: processing a slot with slot_len <= 0 changes nothing of the track,
\* looks up and aligns no clip, raises no error and goes on to the next slot.
C15_DegenerateSlotSkipped ==
    [][(InLoop /\ SlotWidth(i) <= 0) =>
          /\ track' = track
          /\ aligned' = aligned
          /\ outcome' = Append(outcome, Outcome("degenerate", <<>>, FALSE, NoRate))
          /\ i' = i + 1
          /\ pc' = "loop"]_vars

\* C15 witness: a slot that ends before it starts and has a clip was
\* skipped after an earlier slot had written into the track.
C15_Witness ==
    /\ pc = "loop"
    /\ Len(outcome) = 2
    /\ outcome[1].kind = "written"
    /\ outcome[2].kind = "degenerate"
    /\ processed[2].end < processed[2].start
    /\ HasClip(2)
    /\ \E s \in DOMAIN track : track[s] # 0

IsScenario ==
    /\ all_segments = ScenarioSlots(sr)
    /\ files[1] = sr /\ files[2] = sr /\ files[3] = NoFile
    /\ total_samples = 3 * sr
\* sample positions of 1.0 s and 2.5 s
ScenarioCut1 == sr
ScenarioCut2 == (5 * sr) \div 2

\* C17: in the reference scenario the saved track of 3 s holds clip 1
\* unmodified in [0, 1.0 s), the crop/pad to 1.5 s of clip 2 stretched at the
\* clamped rate 0.7 in [1.0 s, 2.5 s) (stretched samples first, then zeros
\* only), and zeros in [2.5 s, 3.0 s).
C17_ReferenceScenario ==
    (IsScenario /\ pc = "done") =>
        /\ Len(output) = 3 * sr
        /\ SubSeq(output, 1, ScenarioCut1) = LoadAudio(files, 1)
        /\ ~outcome[1].stretch
        /\ outcome[2].stretch
        /\ outcome[2].rate = <<7, 10>>
        /\ Len(outcome[2].buf) = ScenarioCut2 - ScenarioCut1
        /\ SubSeq(output, ScenarioCut1 + 1, ScenarioCut2) = outcome[2].buf
        /\ \E len \in 0..Len(outcome[2].buf) :
             \A k \in DOMAIN outcome[2].buf :
                 outcome[2].buf[k] = IF k <= len THEN 120 + k ELSE 0
        /\ \A k \in (ScenarioCut2 + 1)..(3 * sr) : output[k] = 0

\* C17 witness: the reference scenario at the reference rate, saved: clip 1
\* ends at 1.0 s, stretched samples of clip 2 follow, 2.5 s onwards is silent.
C17_Witness ==
    /\ IsScenario
    /\ sr = ReferenceRate
    /\ pc = "done"
    /\ Len(output) = 3 * ReferenceRate
    /\ output[ScenarioCut1] = 10 + ReferenceRate
    /\ output[ScenarioCut1 + 1] = 121
    /\ output[ScenarioCut1 + 3] = 123
    /\ output[ScenarioCut2] = 0
    /\ output[ScenarioCut2 + 1] = 0

\* the slots the loop has reached that have a clip of one sample or more
ClipSlots == {k \in DOMAIN outcome : HasClip(k)}
OutsideWindows == {s \in TrackRange : \A k \in ClipSlots : s \notin Window(k)}

\* C18: the track starts all zero, and at every point of the assembly and
\* in the saved track every sample outside the windows of the slots
\* reached so far that have a non-empty clip is zero.
C18_SilenceOutsideWindows ==
    /\ (pc = "loop" /\ outcome = <<>>) => track = Zeros(total_samples)
    /\ Allocated => \A s \in OutsideWindows : track[s + 1] = 0
    /\ pc = "done" => \A s \in OutsideWindows : output[s + 1] = 0

\* What holds of C18: the same for the runs in which no slot starts before
\* sample 0.
SilenceOutsideWindowsFromZero ==
    (\A k \in DOMAIN processed : SlotStart(k) >= 0) =>
        /\ Allocated => \A s \in OutsideWindows : track[s + 1] = 0
        /\ pc = "done" => \A s \in OutsideWindows : output[s + 1] = 0

\* pairs of bounds a caller may want, in tenths: lower < 1 < upper
StretchRatioBounds == {<<lo, hi>> : lo \in 5..9, hi \in 11..20}

\* C19: whatever pair of bounds the caller supplies, the rate applied on the
\* stretch path lies within that pair.
C19_SuppliedBoundsRespected ==
    \A b \in StretchRatioBounds :
        (AtWrite /\ outcome[i].stretch) =>
            LET r == outcome[i].rate IN
            b[1] * r[2] <= 10 * r[1] /\ 10 * r[1] <= b[2] * r[2]

\* the lines of the cache file, without their line feeds
WrittenLines == [n \in DOMAIN SplitLines(jsonl, <<>>) |-> Strip(SplitLines(jsonl, <<>>)[n])]

\* C20: a saved list of segments loads back: the load does not fail, the
\* file has one line per segment and every line is one JSON object, and the
\* loaded list has, in the same order, each segment's index, text_en and
\* text_de and its start and end in seconds as start_sec and end_sec.
C20_CacheRoundTrip ==
    /\ (segments = <<>> /\ jsonl = <<>> /\ pc = "cache_done") => loaded = <<>>
    /\ segments # <<>> =>
         /\ pc # "cache_failed"
         /\ pc \in {"cache_load", "cache_done"} =>
              /\ Len(WrittenLines) = Len(segments)
              /\ \A n \in DOMAIN WrittenLines : loads(WrittenLines[n]).ok
         /\ pc = "cache_done" =>
              /\ Len(loaded) = Len(segments)
              /\ \A n \in DOMAIN segments :
                   /\ DOMAIN loaded[n] = {Keys[k] : k \in DOMAIN Keys}
                   /\ loaded[n]["index:"] = <<"int", segments[n].index>>
                   /\ loaded[n]["start_sec:"] = <<"float", segments[n].start>>
                   /\ loaded[n]["end_sec:"] = <<"float", segments[n].end>>
                   /\ loaded[n]["text_en:"] = <<"str", segments[n].text_en>>
                   /\ loaded[n]["text_de:"] = <<"str", segments[n].text_de>>

\* C20 witness: two segments loaded back, one with a line feed and a double
\* quote in its text, one from 0.005 s to 62.01 s with index 12.
C20_Witness ==
    /\ pc = "cache_done"
    /\ Len(segments) = 2
    /\ segments[1].text_en = <<"LF", "QT">>
    /\ segments[2].index = 12
    /\ segments[2].start = 5
    /\ segments[2].end = 62010
    /\ loaded[1]["text_en:"] = <<"str", <<"LF", "QT">>>>
    /\ loaded[2]["end_sec:"] = <<"float", 62010>>

\* ---------------------------------------------------------------- C21..C29
\* C22: every write goes to a range inside the track, with a buffer of the
\* range's length: 0 <= start_sample <= end_pos <= total_samples and
\* len(aligned[: end_pos - start_sample]) = end_pos - start_sample.
C22_WriteInBounds ==
    AtWrite =>
        /\ 0 <= StartSample(Seg)
        /\ StartSample(Seg) <= WriteEnd
        /\ WriteEnd <= total_samples
        /\ Len(WriteBuf) = WriteEnd - StartSample(Seg)

\* what the loop body makes of one slot and its clip, on their own
AlignedAlone(seg, audio, rate_hz) ==
    IF NeedStretch(seg.dur, Len(audio), rate_hz)
    THEN {Outcome("aligned", AlignStretched(stretched, SlotLen(seg)), TRUE,
                  ClipRate(RawRate(seg.dur, Len(audio))))
            : stretched \in StretchOutputs(audio, ClipRate(RawRate(seg.dur, Len(audio))))}
    ELSE {Outcome("aligned", AlignNoStretch(audio, SlotLen(seg)), FALSE, NoRate)}

C25_WriteOrdering ==
    [][/\ track' # track =>
            \/ pc = "alloc"
            \/ /\ pc = "write"
               /\ i \in DOMAIN processed
               /\ Len(outcome) = i
               /\ outcome[i].kind = "aligned"
               /\ outcome[i].buf = aligned
               /\ i' = i + 1
               /\ \A k \in 1..(i - 1) : processed[k].start <= processed[i].start
       /\ i' >= i
       /\ (pc \in {"loop", "finalize", "save", "done"} /\ i > Len(processed))
            => track' = track]_vars

\* C25 witness: two slots, the later one first in the file, both written
\* and the track saved.
C25_Witness ==
    /\ pc = "done"
    /\ Len(all_segments) = 2
    /\ Float(all_segments[1].start_sec) > Float(all_segments[2].start_sec)
    /\ Len(outcome) = 2
    /\ outcome[1].kind = "written"
    /\ outcome[2].kind = "written"
    /\ output # Zeros(total_samples)

\* C27: a slot that reaches the stretch decision has a positive duration,
\* so the denominator max(slot_duration, 1e-6) of the relative difference
\* and the denominator slot_duration of the rate are positive.
C27_NoDivisionByZero ==
    /\ CanAlign =>
         /\ Seg.dur > 0
         /\ Max(Seg.dur * EpsilonDen, 2 * sr) > 0
    /\ (AtWrite /\ outcome[i].stretch) => RawRate(Seg.dur, CurClipLen)[2] > 0

\* C27 witness: a slot of half a sample, [0.5, 1.0) in samples, whose
\* bounds round to 0 and 1, is stretched.
C27_Witness ==
    /\ AtWrite
    /\ outcome[i].stretch
    /\ Seg.dur = 1
    /\ SlotLen(Seg) = 1

\* C26: when a record the run keeps cannot be read, at whatever line, the
\* run fails before the track exists: no slot is processed, no clip is
\* loaded and nothing is saved.
C26_ValidationFirst ==
    (\E p \in DOMAIN Kept : ~Acceptable(Kept[p])) =>
        /\ pc \in {"prepare", "failed"}
        /\ processed = <<>>
        /\ track = <<>>
        /\ outcome = <<>>
        /\ output = <<>>

\* C26 witness: three records, the first two readable with clips, the third
\* not; the run failed.
C26_Witness ==
    /\ pc = "failed"
    /\ Len(Kept) = 3
    /\ Acceptable(Kept[1]) /\ Acceptable(Kept[2]) /\ ~Acceptable(Kept[3])
    /\ files[1] > 0 /\ files[2] > 0
    /\ track = <<>>

\* a segment without text: no text_en, None, or nothing but white space
Wordless(seg) ==
    \/ seg.text_en \in {Absent, Null}
    \/ \A n \in DOMAIN seg.text_en[2] : seg.text_en[2][n] \in {"SP", "LF"}
CallsFor(p) == {n \in DOMAIN calls : calls[n].pos = p}

\* C21: when translate_segments returns, the list has the segments it was
\* given, each changed in text_de only; the backend was asked once for each
\* segment with text, in segment order, with that segment's text; text_de
\* is the stripped answer to that request, and the empty string, without a
\* request, for a segment without text.
C21_TranslateInPlace ==
    pc = "translated" =>
        /\ Len(segments) = Len(given)
        /\ \A n \in DOMAIN calls :
             /\ calls[n].pos \in DOMAIN given
             /\ calls[n].text = given[calls[n].pos].text_en
             /\ n > 1 => calls[n - 1].pos < calls[n].pos
        /\ \A p \in DOMAIN given :
             /\ segments[p].index = given[p].index
             /\ segments[p].text_en = given[p].text_en
             /\ Wordless(given[p]) =>
                  /\ CallsFor(p) = {}
                  /\ segments[p].text_de = EmptyStr
             /\ ~Wordless(given[p]) =>
                  /\ Cardinality(CallsFor(p)) = 1
                  /\ \A n \in CallsFor(p) :
                       segments[p].text_de =
                           IF calls[n].answer = Null THEN EmptyStr
                           ELSE Str(Strip(calls[n].answer[2]))

\* C21 witness: three segments, the second of white space only; two
\* requests were made and the second answer came back with white space
\* around it.
C21_Witness ==
    /\ pc = "translated"
    /\ Len(given) = 3
    /\ given[1].text_en = Str(<<"SP", "a">>)
    /\ given[2].text_en = Str(<<"SP">>)
    /\ given[3].text_en = Str(<<"a">>)
    /\ Len(calls) = 2
    /\ calls[2].answer = Str(<<"SP", "uml", "LF">>)
    /\ segments[3].text_de = Str(<<"uml">>)
    /\ segments[2].text_de = EmptyStr

\* C28: without --overwrite a file that exists is left as it is and its
\* segment is skipped, not synthesized; every segment whose file does not
\* exist is synthesized; with --overwrite every segment is synthesized.
C28_SkipExisting ==
    [][/\ ~overwrite =>
            \A idx \in DOMAIN out_dir :
                out_dir[idx] # Unwritten => out_dir'[idx] = out_dir[idx]
       /\ i' = i + 1 =>
            /\ Len(calls') = Len(calls) + 1
            /\ LET e == calls'[Len(calls')] IN
                 /\ e.pos = i
                 /\ e.idx = SegIdx(KeptTts[i], i)
                 /\ e.kind = "skip" <=> (out_dir[e.idx] # Unwritten /\ ~overwrite)
                 /\ e.kind = "skip" => out_dir' = out_dir]_vars

\* C28 witness: a run without --overwrite over three segments whose files
\* were all there: three skips, no file changed.
C28_Witness ==
    /\ pc = "tts_done"
    /\ ~overwrite
    /\ Len(calls) = 3
    /\ \A n \in DOMAIN calls : calls[n].kind = "skip"
    /\ {calls[n].idx : n \in DOMAIN calls} = {1, 2, 3}
    /\ \A idx \in DOMAIN out_dir : out_dir[idx] = Earlier

\* C29: the loop reaches the end of the segment list, and then every
\* segment has had its turn, in order, whatever failed before it.
C29_FailureIsolated ==
    (pc = "tts") ~>
        (/\ pc = "tts_done"
         /\ Len(calls) = Len(KeptTts)
         /\ \A n \in DOMAIN calls : calls[n].pos = n)

\* C29 witness: the first request failed, the second segment was
\* synthesized, the third request failed, and the run finished.
C29_Witness ==
    /\ pc = "tts_done"
    /\ Len(calls) = 3
    /\ calls[1].kind = "error"
    /\ calls[2].kind = "ok"
    /\ calls[3].kind = "error"

\* the line of the JSONL a slot of the timeline comes from
LineOf(slot) == CHOOSE p \in DOMAIN all_segments :
                    Float(all_segments[p].start_sec) = slot.start
\* the file the TTS stage makes of a line's text
FileFor(seg) ==
    IF Spoken(TextOf(seg)) = <<>> THEN ZeroBytes ELSE Mp3(Spoken(TextOf(seg)))

\* C23: when the timeline is built, the file seg_<idx> the aligner looks up
\* for a slot is, if it exists, the file the TTS stage made from the text
\* of the line the slot comes from.
C23_ClipIdentity ==
    TimelineBuilt =>
        \A k \in DOMAIN processed :
            LET idx == SegIdx(processed[k], k) IN
            out_dir[idx] # Unwritten => out_dir[idx] = FileFor(segments[LineOf(processed[k])])

====
